---- MODULE Spec2Model ----
(***************************************************************************)
(* State-machine model of the AlphaFund contract                            *)
(* (contracts/stellar_fund/src/lib.rs; contracts/hello_world/src/lib.rs is  *)
(* the same contract without doc comments).                                 *)
(*                                                                          *)
(* Persistent storage is modelled key by key (DataKey).  An absent key is   *)
(* None; a present key holds Some(v).  Every entry point is one atomic      *)
(* action: a panic anywhere in an invocation makes the host discard every   *)
(* write and every sub-invocation (token transfer) of that invocation.      *)
(* The token contract is external: the balance it reports for the fund at   *)
(* closure and whether its transfers go through are inputs of close_fund.   *)
(* lastOp, result, invoked, closed_before and args_valid are observation    *)
(* variables: the last call, its outcome, the transfers it invoked (even    *)
(* when rolled back), whether some close_fund has ever succeeded, and       *)
(* whether every call so far had arguments inside the documented domain     *)
(* (fee percent in [0, 100), deposit >= 0, close_fund authenticated as the  *)
(* stored manager with the token contract letting transfers through).       *)
(* fee_phase tells whether the last call entered the performance-fee        *)
(* branch of close_fund, and first_calls lists the addresses passed to      *)
(* add_investor since the last successful create, in order of first call.   *)
(***************************************************************************)
EXTENDS Integers, Sequences, FiniteSets, TLC

\* ---------------------------------------------------------------- bounds
MaxDeposit == 2
MaxBalance == 10

Addr == {"a1", "a2"}
Tokens == {"t1", "t2"}
FeePercents == {-1, 10, 100}
DepositAmounts == {-1, 1, 2}
Balances == {0, MaxBalance}

\* ------------------------------------------------------- storage options
None == <<>>
Some(v) == <<v>>

\* Option::unwrap_or
unwrap_or(o, d) == IF o = None THEN d ELSE o[1]

\* i128 `/`: truncates toward zero (b # 0; b = 0 panics and is handled by
\* the caller)
i128_div(a, b) ==
    LET abs(x) == IF x < 0 THEN -x ELSE x
        q == abs(a) \div abs(b)
    IN IF (a < 0) = (b < 0) THEN q ELSE -q

\* Vec::contains
contains_mut(s, x) == s # <<>> /\ s[1] = x
contains(s, x) == \E k \in 1..Len(s) : s[k] = x

VARIABLES FundState, Manager, Traders, Investors, TradingAllocation,
          InvestorDeposit, TotalDeposited, PerformanceFeePercent, Token,
          lastOp, result, invoked, closed_before, args_valid,
          fee_phase, first_calls

storage == <<FundState, Manager, Traders, Investors, TradingAllocation,
             InvestorDeposit, TotalDeposited, PerformanceFeePercent, Token>>

vars == <<FundState, Manager, Traders, Investors, TradingAllocation,
          InvestorDeposit, TotalDeposited, PerformanceFeePercent, Token,
          lastOp, result, invoked, closed_before, args_valid,
          fee_phase, first_calls>>

Call(op, addr, num, token, signer, gateway_ok) ==
    [op |-> op, addr |-> addr, num |-> num, token |-> token,
     signer |-> signer, gateway_ok |-> gateway_ok]

\* A freshly registered contract: nothing is stored.
Init ==
    /\ FundState = None
    /\ Manager = None
    /\ Traders = None
    /\ Investors = None
    /\ TradingAllocation = [a \in Addr |-> None]
    /\ InvestorDeposit = [a \in Addr |-> None]
    /\ TotalDeposited = None
    /\ PerformanceFeePercent = None
    /\ Token = None
    /\ lastOp = Call("deploy", "-", 0, "-", "-", TRUE)
    /\ result = "ok"
    /\ invoked = <<>>
    /\ closed_before = FALSE
    /\ args_valid = TRUE
    /\ fee_phase = FALSE
    /\ first_calls = <<>>

\* ------------------------------------------------------------- create
\* assert!(performance_fee_percent < 100, ...)
fee_check_mut(performance_fee_percent) == performance_fee_percent <= 100
fee_check(performance_fee_percent) == performance_fee_percent < 100

\* vec![&env, manager.clone()]
initial_traders_mut(manager) == <<>>
initial_traders(manager) == <<manager>>

create(manager, performance_fee_percent, token) ==
    /\ lastOp' = Call("create", manager, performance_fee_percent, token, "-", TRUE)
    /\ invoked' = <<>>
    /\ args_valid' = (args_valid /\ performance_fee_percent \in 0..99)
    /\ fee_phase' = FALSE
    /\ UNCHANGED <<TotalDeposited, InvestorDeposit, closed_before>>
    /\ IF ~fee_check(performance_fee_percent)
       THEN /\ result' = "InvalidParameter"
            /\ UNCHANGED first_calls
            /\ UNCHANGED <<FundState, Manager, Traders, Investors,
                           TradingAllocation, PerformanceFeePercent, Token>>
       ELSE /\ result' = "ok"
            /\ first_calls' = <<>>
            /\ FundState' = Some("OpenToInvestors")
            /\ Manager' = Some(manager)
            /\ TradingAllocation' = [TradingAllocation EXCEPT ![manager] = Some(0)]
            /\ PerformanceFeePercent' = Some(performance_fee_percent)
            /\ Token' = Some(token)
            /\ Traders' = Some(initial_traders(manager))
            /\ Investors' = Some(<<>>)

\* -------------------------------------------------------- add_investor
get_traders == unwrap_or(Traders, <<>>)
get_investors == unwrap_or(Investors, <<>>)

\* &(current_deposit + deposit_amount)
new_deposit_mut(current_deposit, deposit_amount) == deposit_amount
new_deposit(current_deposit, deposit_amount) == current_deposit + deposit_amount

add_investor(investor, deposit_amount) ==
    LET investors == get_investors
        current_deposit == unwrap_or(InvestorDeposit[investor], 0)
    IN /\ current_deposit + deposit_amount \in -MaxDeposit..MaxDeposit
       /\ lastOp' = Call("add_investor", investor, deposit_amount, "-", "-", TRUE)
       /\ result' = "ok"
       /\ invoked' = <<>>
       /\ args_valid' = (args_valid /\ deposit_amount >= 0)
       /\ fee_phase' = FALSE
       /\ first_calls' = IF investor \in {first_calls[k] : k \in DOMAIN first_calls}
                         THEN first_calls
                         ELSE Append(first_calls, investor)
       /\ Investors' = IF ~contains(investors, investor)
                       THEN Some(Append(investors, investor))
                       ELSE Investors
       /\ InvestorDeposit' = [InvestorDeposit EXCEPT
                                ![investor] = Some(new_deposit(current_deposit,
                                                               deposit_amount))]
       /\ UNCHANGED <<FundState, Manager, Traders, TradingAllocation,
                      TotalDeposited, PerformanceFeePercent, Token, closed_before>>

\* ---------------------------------------------------------- close_fund
\* Address::require_auth: the address passed as argument must have
\* authorized the invocation.
require_auth(address, signer) == address = signer

\* Running state of one settlement: the fund's token balance, the transfers
\* invoked so far, the panic raised (if any), and whether the token
\* contract lets transfers through.
Run(bal, gateway_ok) ==
    [bal |-> bal, calls |-> <<>>, fault |-> "none", gateway_ok |-> gateway_ok,
     fee_phase |-> FALSE]

get_contract_balance(st) == st.bal

transfer_tokens(st, recipient, amount, phase) ==
    LET call == [to |-> recipient, amount |-> amount, phase |-> phase]
    IN IF st.fault # "none" THEN st
       ELSE IF st.gateway_ok /\ amount >= 0 /\ amount <= st.bal
            THEN [st EXCEPT !.bal = @ - amount, !.calls = Append(@, call)]
            ELSE [st EXCEPT !.calls = Append(@, call), !.fault = "TransferFailed"]

\* if alloc_percent > 0
alloc_check_mut(alloc_percent) == alloc_percent >= 0
alloc_check(alloc_percent) == alloc_percent > 0

RECURSIVE pay_traders(_, _, _)
pay_traders(traders, total_performance_fee, st) ==
    IF traders = <<>> \/ st.fault # "none" THEN st
    ELSE LET trader == Head(traders)
             alloc_percent == unwrap_or(TradingAllocation[trader], 0)
             trader_fee == i128_div(total_performance_fee * alloc_percent, 100)
             st1 == IF alloc_check(alloc_percent)
                    THEN transfer_tokens(st, trader, trader_fee, "fee")
                    ELSE st
         IN pay_traders(Tail(traders), total_performance_fee, st1)

RECURSIVE pay_investors(_, _, _, _)
pay_investors(investors, total_deposited, remaining_balance, st) ==
    IF investors = <<>> \/ st.fault # "none" THEN st
    ELSE LET investor == Head(investors)
             deposit_amt == unwrap_or(InvestorDeposit[investor], 0)
             percentage == i128_div(deposit_amt * 100, total_deposited)
             fraction_to_pay == i128_div(remaining_balance * percentage, 100)
             st1 == IF deposit_amt > 0
                    THEN IF total_deposited = 0
                         THEN [st EXCEPT !.fault = "DivisionByZero"]
                         ELSE transfer_tokens(st, investor, fraction_to_pay, "payout")
                    ELSE st
         IN pay_investors(Tail(investors), total_deposited, remaining_balance, st1)

\* if contract_balance > total_deposited
profit_check_mut(contract_balance, total_deposited) == contract_balance >= total_deposited
profit_check(contract_balance, total_deposited) == contract_balance > total_deposited

\* Body of close_fund after the two guards.
settle(balance, gateway_ok) ==
    LET total_deposited == unwrap_or(TotalDeposited, 0)
        st0 == Run(balance, gateway_ok)
        contract_balance == get_contract_balance(st0)
        profit == contract_balance - total_deposited
        performance_fee_percent == unwrap_or(PerformanceFeePercent, 0)
        total_performance_fee == i128_div(profit * performance_fee_percent, 100)
        st1 == IF profit_check(contract_balance, total_deposited)
               THEN pay_traders(get_traders, total_performance_fee,
                                [st0 EXCEPT !.fee_phase = TRUE])
               ELSE st0
        remaining_balance == get_contract_balance(st1)
    IN pay_investors(get_investors, total_deposited, remaining_balance, st1)

close_fund(signer, manager, balance, gateway_ok) ==
    LET state == unwrap_or(FundState, "Closed")
        out == settle(balance, gateway_ok)
        err == IF ~require_auth(manager, signer) THEN "Unauthorized"
               ELSE IF state = "Closed" THEN "AlreadyClosed"
               ELSE out.fault
    IN /\ lastOp' = Call("close_fund", manager, balance, "-", signer, gateway_ok)
       /\ result' = IF err = "none" THEN "ok" ELSE err
       /\ invoked' = IF err \in {"Unauthorized", "AlreadyClosed"} THEN <<>> ELSE out.calls
       /\ FundState' = IF err = "none" THEN Some("Closed") ELSE FundState
       /\ fee_phase' = IF err \in {"Unauthorized", "AlreadyClosed"} THEN FALSE
                       ELSE out.fee_phase
       /\ closed_before' = (closed_before \/ err = "none")
       /\ args_valid' = (/\ args_valid
                         /\ Manager = Some(manager)
                         /\ require_auth(manager, signer)
                         /\ gateway_ok)
       /\ UNCHANGED <<Manager, Traders, Investors, TradingAllocation,
                      InvestorDeposit, TotalDeposited, PerformanceFeePercent, Token,
                      first_calls>>

Next ==
    \/ \E manager \in Addr, fee \in FeePercents, token \in Tokens :
          create(manager, fee, token)
    \/ \E investor \in Addr, deposit_amount \in DepositAmounts :
          add_investor(investor, deposit_amount)
    \/ \E signer \in Addr, manager \in Addr, balance \in Balances, gateway_ok \in BOOLEAN :
          close_fund(signer, manager, balance, gateway_ok)

Spec == Init /\ [][Next]_vars

TypeOK ==
    /\ FundState \in {None, Some("OpenToInvestors"), Some("Trading"), Some("Closed")}
    /\ result \in {"ok", "InvalidParameter", "Unauthorized", "AlreadyClosed",
                   "DivisionByZero", "TransferFailed"}

\* ------------------------------------------------------------ properties
\* Outcome labels: "InvalidParameter" is the panic of create's assert!,
\* "Unauthorized" a failed require_auth, "AlreadyClosed" the panic of
\* close_fund's assert_ne!, "DivisionByZero" the arithmetic panic of `/`,
\* "TransferFailed" a failed token invocation.

Initialized == FundState # None
IsOpen == FundState \in {Some("OpenToInvestors"), Some("Trading")}

\* The step is a close_fund call authenticated as the stored manager.
ManagerCloses ==
    /\ lastOp'.op = "close_fund"
    /\ Manager # None
    /\ lastOp'.signer = unwrap_or(Manager, "-")
    /\ lastOp'.addr = unwrap_or(Manager, "-")

RECURSIVE SumDeposits(_)
SumDeposits(investors) ==
    IF investors = <<>> THEN 0
    ELSE unwrap_or(InvestorDeposit[Head(investors)], 0) + SumDeposits(Tail(investors))

NoNegativeDeposit == \A a \in Addr : unwrap_or(InvestorDeposit[a], 0) >= 0

\* An initialized fund reached by calls inside the documented input domain,
\* and a call whose numeric argument is not negative and whose token
\* transfers go through.
WellFormed == Initialized /\ args_valid
ValidCall == lastOp'.num >= 0 /\ lastOp'.gateway_ok

RECURSIVE Paid(_, _, _)
Paid(calls, to, phase) ==
    IF calls = <<>> THEN 0
    ELSE (IF Head(calls).to = to /\ Head(calls).phase = phase
          THEN Head(calls).amount ELSE 0) + Paid(Tail(calls), to, phase)

RECURSIVE PaidInPhase(_, _)
PaidInPhase(calls, phase) ==
    IF calls = <<>> THEN 0
    ELSE (IF Head(calls).phase = phase THEN Head(calls).amount ELSE 0)
         + PaidInPhase(Tail(calls), phase)

\* C1: a close_fund authenticated as an address other than the stored
\* manager fails with Unauthorized, invokes no transfer and changes no
\* stored value.
C1_NonManagerCloseRejected ==
    [][(/\ lastOp'.op = "close_fund"
        /\ WellFormed /\ ValidCall
        /\ lastOp'.signer # unwrap_or(Manager, "-"))
       => (/\ result' = "Unauthorized"
           /\ invoked' = <<>>
           /\ storage' = storage)]_vars

\* C2: once FundState is Closed it is Closed in every later state, whatever
\* create, add_investor or close_fund call follows.
C2_ClosedIsTerminal ==
    [][(FundState = Some("Closed") /\ WellFormed /\ ValidCall)
       => FundState' = Some("Closed")]_vars

\* C3: after a successful close_fund every further close_fund (here: one
\* authenticated as the stored manager) fails with AlreadyClosed, leaves
\* the state Closed and invokes no transfer.
C3_SecondCloseRejected ==
    [][(ManagerCloses /\ closed_before /\ WellFormed /\ ValidCall)
       => (/\ result' = "AlreadyClosed"
           /\ FundState' = Some("Closed")
           /\ invoked' = <<>>)]_vars

\* The guard of close_fund itself: a call that passes require_auth while
\* FundState is Closed (or absent) fails with AlreadyClosed and changes
\* nothing.
ClosedGuardHolds ==
    [][(/\ lastOp'.op = "close_fund"
        /\ lastOp'.signer = lastOp'.addr
        /\ FundState \in {None, Some("Closed")})
       => (/\ result' = "AlreadyClosed"
           /\ invoked' = <<>>
           /\ storage' = storage)]_vars

\* C4: create on an already-initialized fund (with an otherwise valid fee)
\* fails with AlreadyInitialized and leaves every stored value unchanged.
C4_CreateOnlyOnce ==
    [][(/\ lastOp'.op = "create"
        /\ WellFormed
        /\ lastOp'.num \in 0..99)
       => (/\ result' = "AlreadyInitialized"
           /\ storage' = storage)]_vars

\* C5: in every initialized state reached with non-negative deposits,
\* total_deposited equals the sum of the recorded deposits of the
\* investors in the registry.
C5_TotalDepositedIsSum ==
    WellFormed
    => unwrap_or(TotalDeposited, 0) = SumDeposits(get_investors)

\* C6: from any initialized non-Closed state reached with non-negative
\* deposits, a close_fund authenticated as the manager, with the token
\* contract letting transfers through, succeeds and ends Closed.
C6_ManagerCloseSucceeds ==
    [][(ManagerCloses /\ IsOpen /\ WellFormed /\ ValidCall)
       => (/\ result' = "ok"
           /\ FundState' = Some("Closed"))]_vars

\* C7: when total_deposited is 0 at closure, close_fund does not fault,
\* invokes no transfer to an investor and sets FundState to Closed.
C7_ZeroTotalSkipsResidual ==
    [][(/\ ManagerCloses /\ IsOpen /\ WellFormed /\ ValidCall
        /\ unwrap_or(TotalDeposited, 0) = 0)
       => (/\ result' = "ok"
           /\ PaidInPhase(invoked', "payout") = 0
           /\ FundState' = Some("Closed"))]_vars

\* C8: a close_fund by the manager on an open fund whose investors have
\* deposited a positive total D pays each investor exactly
\* floor(remaining_balance * floor(deposit * 100 / D) / 100), where
\* remaining_balance is the balance left after the trader fee transfers.
C8_PayoutFormula ==
    [][(/\ ManagerCloses /\ IsOpen /\ WellFormed /\ ValidCall
        /\ SumDeposits(get_investors) > 0)
       => (/\ result' = "ok"
           /\ LET D == SumDeposits(get_investors)
                  remaining_balance == lastOp'.num - PaidInPhase(invoked', "fee")
              IN \A k \in 1..Len(get_investors) :
                    LET investor == get_investors[k]
                        deposit == unwrap_or(InvestorDeposit[investor], 0)
                    IN Paid(invoked', investor, "payout")
                         = (remaining_balance * ((deposit * 100) \div D)) \div 100)]_vars

\* C9: with a single investor I of deposit d > 0 and a balance B > d at
\* closure, close_fund by the manager transfers nothing to the manager as
\* trader, transfers B to I and ends Closed.
C9_SingleInvestorEndToEnd ==
    [][(/\ ManagerCloses /\ IsOpen /\ WellFormed /\ ValidCall
        /\ Len(get_investors) = 1
        /\ unwrap_or(InvestorDeposit[get_investors[1]], 0) > 0
        /\ lastOp'.num > unwrap_or(InvestorDeposit[get_investors[1]], 0))
       => (/\ result' = "ok"
           /\ FundState' = Some("Closed")
           /\ invoked' = << [to |-> get_investors[1], amount |-> lastOp'.num,
                             phase |-> "payout"] >>)]_vars

\* C10: create with performance_fee_percent >= 100 fails with
\* InvalidParameter and writes nothing; an uninitialized fund stays
\* uninitialized.
C10_BadFeeRejected ==
    [][(lastOp'.op = "create" /\ lastOp'.num >= 100)
       => (/\ result' = "InvalidParameter"
           /\ storage' = storage)]_vars

C10_Witness ==
    /\ lastOp.op = "create"
    /\ lastOp.num >= 100
    /\ result = "InvalidParameter"
    /\ storage = <<None, None, None, None, [a \in Addr |-> None],
                   [a \in Addr |-> None], None, None, None>>

\* C11: in every initialized state the stored performance_fee_percent is
\* in [0, 100) (so a create with a negative fee percent must have been
\* rejected).
C11_FeeInRange ==
    Initialized => unwrap_or(PerformanceFeePercent, 0) \in 0..99

\* C12: immediately after a successful create(manager, fee, token) the
\* state is OpenToInvestors, the stored manager is the given one, the
\* trader registry is exactly [manager] with allocation percent 0, the
\* investor registry is empty and total_deposited reads as 0.
C12_CreatePostcondition ==
    [][(lastOp'.op = "create" /\ result' = "ok")
       => (/\ FundState' = Some("OpenToInvestors")
           /\ Manager' = Some(lastOp'.addr)
           /\ unwrap_or(Traders', <<>>) = <<lastOp'.addr>>
           /\ Traders' # None
           /\ TradingAllocation'[lastOp'.addr] = Some(0)
           /\ Investors' = Some(<<>>)
           /\ unwrap_or(TotalDeposited', 0) = 0)]_vars

C12_Witness ==
    /\ lastOp.op = "create"
    /\ result = "ok"
    /\ FundState = Some("OpenToInvestors")
    /\ Manager = Some(lastOp.addr)
    /\ Traders = Some(<<lastOp.addr>>)
    /\ TradingAllocation[lastOp.addr] = Some(0)
    /\ Investors = Some(<<>>)
    /\ TotalDeposited = None

\* C13: in every initialized state the investor registry is the sequence
\* of the distinct addresses passed to add_investor since creation, each
\* exactly once, in order of first call.
C13_RegistryIsFirstCallOrder ==
    Initialized
    => (/\ get_investors = first_calls
        /\ \A j, k \in 1..Len(get_investors) :
              get_investors[j] = get_investors[k] => j = k)

\* Two investors are registered and the last call was a further deposit by
\* the one registered first.
C13_Witness ==
    /\ Initialized
    /\ Len(get_investors) = 2
    /\ lastOp.op = "add_investor"
    /\ lastOp.addr = get_investors[1]
    /\ get_investors[2] # get_investors[1]

\* C14: after a successful add_investor(X, a), X's recorded deposit is its
\* previous recorded amount (0 if absent) plus a, and the recorded deposit
\* of every other address is unchanged.
C14_DepositsAccumulate ==
    [][(lastOp'.op = "add_investor" /\ result' = "ok")
       => (/\ InvestorDeposit'[lastOp'.addr]
                = Some(unwrap_or(InvestorDeposit[lastOp'.addr], 0) + lastOp'.num)
           /\ \A a \in Addr \ {lastOp'.addr} :
                 InvestorDeposit'[a] = InvestorDeposit[a])]_vars

\* A second deposit of 1 on top of a recorded 1, with another investor
\* holding a deposit as well.
C14_Witness ==
    /\ lastOp.op = "add_investor"
    /\ result = "ok"
    /\ lastOp.num = 1
    /\ InvestorDeposit[lastOp.addr] = Some(2)
    /\ \E a \in Addr \ {lastOp.addr} : InvestorDeposit[a] = Some(1)

\* C15: add_investor on a Closed fund fails and leaves the investor
\* registry, every recorded deposit and total_deposited unchanged.
C15_NoDepositAfterClose ==
    [][(/\ lastOp'.op = "add_investor"
        /\ FundState = Some("Closed")
        /\ WellFormed /\ ValidCall)
       => (/\ result' # "ok"
           /\ Investors' = Investors
           /\ InvestorDeposit' = InvestorDeposit
           /\ TotalDeposited' = TotalDeposited)]_vars

\* C16: no call ever lowers a recorded deposit (an add_investor with a
\* negative amount is rejected and changes nothing).
C16_DepositsNeverDecrease ==
    [][WellFormed
       => \A a \in Addr :
             unwrap_or(InvestorDeposit'[a], 0) >= unwrap_or(InvestorDeposit[a], 0)]_vars

\* C17: when the token balance at closure is less than or equal to
\* total_deposited, close_fund does not enter the performance-fee branch
\* and invokes no transfer to any trader.
C17_NoFeeWithoutProfit ==
    [][(/\ lastOp'.op = "close_fund"
        /\ result' \notin {"Unauthorized", "AlreadyClosed"}
        /\ lastOp'.num <= unwrap_or(TotalDeposited, 0))
       => (/\ ~fee_phase'
           /\ \A k \in 1..Len(invoked') : invoked'[k].phase # "fee")]_vars

C17_Witness ==
    /\ lastOp.op = "close_fund"
    /\ result = "ok"
    /\ lastOp.num <= unwrap_or(TotalDeposited, 0)
    /\ ~fee_phase
    /\ invoked = <<>>
    /\ FundState = Some("Closed")

====
